---- MODULE Spec2Model ----
(***************************************************************************)
(* ash_shader_creator (src/src/lib.rs): the ShaderStage builder, its       *)
(* with_* setters, build() and create_shader_modules().                    *)
(*                                                                         *)
(* Paths and names are sequences of one-character strings, so that the     *)
(* substring tests of the code are computed and not assumed.  The file     *)
(* system, the Vulkan device and the heap that owns the entry-point name   *)
(* are the environment: a directory is the sequence of its file names in   *)
(* enumeration order, the device hands out module handles, the heap maps   *)
(* the address of every CString buffer to its bytes and whether it has     *)
(* been released.                                                          *)
(*                                                                         *)
(* The environment is free where the code lets it be: read_dir and         *)
(* File::open may fail, create_shader_module may fail or return a handle   *)
(* equal to one it returned before.  It is fixed in this: the entries are  *)
(* regular files with UTF-8 names that are read to their end, and the      *)
(* directory does not change while build runs, so that the enumeration of  *)
(* line 101 yields the entries of the enumeration of line 150 in the same  *)
(* order.                                                                  *)
(***************************************************************************)
EXTENDS Integers, Sequences, FiniteSets, TLC

VARIABLES
    builder,        \* the ShaderStage value (lib.rs 23-32)
    heap,           \* CString buffers: address -> [bytes, freed]
    entries,        \* file names of the directory, in enumeration order
    pc,             \* where the caller / build() stands
    files_path_buf, \* create_shader_modules: the matched paths (lib.rs 151)
    api_calls,      \* every create_shader_module call made on the device
    live_modules,   \* handles of the modules that exist on the device
    shader_modules, \* Vec<ShaderModule> returned by create_shader_modules
    shader_path,    \* HashMap<&ShaderModule, PathBuf> (lib.rs 115)
    result,         \* the descriptors collected so far (lib.rs 118-139)
    panic_msg,      \* the panic that ended the latest call, "" if none
    panic_path,     \* the path its message names, <<>> if none
    last_set,       \* history: the argument of the last call of each setter
                    \* that returned
    budget,         \* setter calls the caller may still make (none once
                    \* build has consumed the builder)
    seen_name       \* what the caller read through a descriptor's p_name,
                    \* <<>> before it reads

vars == <<builder, heap, entries, pc, files_path_buf,
          api_calls, live_modules, shader_modules, shader_path, result,
          panic_msg, panic_path, last_set, budget, seen_name>>

----------------------------------------------------------------------------
(* Bounds of the model *)

\* files in a directory
MaxFiles == 2
\* setter calls before build, where the directories are drawn in full (Spec)
MaxConfigCalls == 1
\* setter calls where the setters are exercised (SpecSetters)
MaxSetterCalls == 3

----------------------------------------------------------------------------
(* Strings *)

NUL == "\\0"

S_spv      == <<".", "s", "p", "v">>
S_vs       == <<".", "v", "s">>
S_fs       == <<".", "f", "s">>
S_vert_spv == <<"v", "e", "r", "t", ".", "s", "p", "v">>
S_frag_spv == <<"f", "r", "a", "g", ".", "s", "p", "v">>

\* str::contains (lib.rs 111, 127, 129, 162)
Contains(s, pat) ==
    \E i \in 1..(Len(s) - Len(pat) + 1) : SubSeq(s, i, i + Len(pat) - 1) = pat

\* DirEntry::path(): the directory path joined with the file name
EntryPath(dir, name) == dir \o <<"/">> \o name

\* what stands for the Err of CString::new: no CString is empty
NulError == <<>>

\* CString::new: the bytes followed by a terminating NUL; an interior NUL is
\* an error (and the unwrap of lines 58 and 89 panics)
CStringNew(s) ==
    IF \E i \in 1..Len(s) : s[i] = NUL THEN NulError ELSE s \o <<NUL>>

----------------------------------------------------------------------------
(* Inputs *)

F_vert   == <<"a", ".", "v", "e", "r", "t", ".", "s", "p", "v">>
F_frag   == <<"b", ".", "f", "r", "a", "g", ".", "s", "p", "v">>
F_vs     == <<"c", ".", "v", "s">>
F_fs     == <<"d", ".", "f", "s">>
F_comp   == <<"c", "o", "m", "p", ".", "s", "p", "v">>
F_invert == <<"i", "n", "v", "e", "r", "t", ".", "s", "p", "v">>
F_txt    == <<"r", ".", "t", "x", "t">>

FileNames == {F_vert, F_frag, F_vs, F_fs, F_comp, F_invert, F_txt}

D_plain == <<"s">>
D_vs    == <<"k", ".", "v", "s">>
D_spv   == <<"k", ".", "s", "p", "v">>

DirPaths == {D_plain, D_vs, D_spv}

\* number of bytes of a file: a different size for every name
FileSize(name) == 2 * Len(name) + (IF Contains(name, S_spv) THEN 1 ELSE 0)

NameArgs == {<<"m", "a", "i", "n">>, <<"e">>, <<"e", NUL, "x">>}
Flags    == {0, 1}
Pointers == {0, 7}

\* directories: sequences of pairwise different file names
RECURSIVE Listings(_)
Listings(n) ==
    IF n = 0 THEN {<<>>}
    ELSE LET shorter == Listings(n - 1)
         IN  shorter \cup
             {Append(l, f) : l \in {x \in shorter : Len(x) = n - 1},
                             f \in FileNames}

Distinct(seq) == \A i, j \in 1..Len(seq) : seq[i] = seq[j] => i = j

Directories == {l \in Listings(MaxFiles) : Distinct(l)}

Range(seq) == {seq[i] : i \in 1..Len(seq)}

Min(a, b) == IF a <= b THEN a ELSE b

----------------------------------------------------------------------------
(* The builder: new and the with_* setters (lib.rs 49-90) *)

MainName == <<"m", "a", "i", "n">>

\* ShaderStage::new; the entry-point name is the CString at address name_addr
New(device, dir_path, name_addr) ==
    [device              |-> device,
     dir_path            |-> dir_path,
     shader_flags        |-> 0,
     shader_p_next       |-> 0,
     shader_stage_flags  |-> 0,
     shader_stage_p_next |-> 0,
     spec_info           |-> 0,
     main_function_name  |-> name_addr]

with_shader_flags(b, shader_flags) ==
    [b EXCEPT !.shader_flags = shader_flags]

with_shader_p_next_WrongField(b, p_next) ==
    [b EXCEPT !.shader_stage_p_next = p_next]

with_shader_p_next(b, p_next) ==
    [b EXCEPT !.shader_p_next = p_next]

with_shader_stage_flags(b, shader_stage_flags) ==
    [b EXCEPT !.shader_stage_flags = shader_stage_flags]

with_shader_stage_p_next(b, p_next) ==
    [b EXCEPT !.shader_stage_p_next = p_next]

with_spec_info(b, spec_info) ==
    [b EXCEPT !.spec_info = spec_info]

\* the assignment of line 89: the field takes the new CString's address
with_main_function_name(b, name_addr) ==
    [b EXCEPT !.main_function_name = name_addr]

\* a CString buffer is released when its owner is dropped
Free(h, addr) == [h EXCEPT ![addr].freed = TRUE]

\* the heap once the builder b has been dropped
DropBuilder(h, b) == Free(h, b.main_function_name)

----------------------------------------------------------------------------
(* The pure parts of create_shader_modules and build *)

\* the filter of create_shader_modules (lib.rs 162)
IsShaderFile(path) ==
    Contains(path, S_spv) \/ Contains(path, S_vs) \/ Contains(path, S_fs)

\* the filter of build (lib.rs 111)
IsSpvFile(path) == Contains(path, S_spv)

\* the paths of a directory in enumeration order
AllPaths(dir, names) == [i \in 1..Len(names) |-> EntryPath(dir, names[i])]

\* files_path_buf (lib.rs 151-165)
ShaderFilePaths(dir, names) ==
    SelectSeq(AllPaths(dir, names), IsShaderFile)

\* file_paths (lib.rs 101-113)
SpvFilePaths(dir, names) ==
    SelectSeq(AllPaths(dir, names), IsSpvFile)

\* shader_modules.iter().zip(file_paths).collect::<HashMap>() (lib.rs 115-116):
\* the pairs up to the shorter length, a later pair replacing an earlier one
\* with an equal key
ZipCollect(modules, paths) ==
    LET n == Min(Len(modules), Len(paths))
        last(h) == CHOOSE i \in 1..n :
                      /\ modules[i] = h
                      /\ \A j \in 1..n : modules[j] = h => j <= i
    IN  [h \in {modules[i] : i \in 1..n} |-> paths[last(h)]]

InferStage_FragmentFirst(path) ==
    IF Contains(path, S_frag_spv) \/ Contains(path, S_fs) THEN "FRAGMENT"
    ELSE IF Contains(path, S_vert_spv) \/ Contains(path, S_vs) THEN "VERTEX"
    ELSE "PANIC"

InferStage_NoPanic(path) ==
    IF Contains(path, S_vert_spv) \/ Contains(path, S_vs) THEN "VERTEX"
    ELSE "FRAGMENT"

\* the stage expression (lib.rs 127-133)
InferStage(path) ==
    IF Contains(path, S_vert_spv) \/ Contains(path, S_vs) THEN "VERTEX"
    ELSE IF Contains(path, S_frag_spv) \/ Contains(path, S_fs) THEN "FRAGMENT"
    ELSE "PANIC"

\* the ShaderModuleCreateInfo of one file (lib.rs 179-185); p_code is the
\* path of the file whose bytes it points to
ModuleCreateInfo(flags, p_next, code_len, code_of) ==
    [s_type    |-> "SHADER_MODULE_CREATE_INFO",
     p_next    |-> p_next,
     flags     |-> flags,
     code_size |-> code_len,
     p_code    |-> code_of]

BytesRead_Words(dir, path) ==
    LET name == CHOOSE f \in FileNames : EntryPath(dir, f) = path
    IN  FileSize(name) \div 4

\* the number of bytes collected from the file at path (lib.rs 171-175)
BytesRead(dir, path) ==
    LET name == CHOOSE f \in FileNames : EntryPath(dir, f) = path
    IN  FileSize(name)

StageCreateInfo_ModulePNext(b, module, stage) ==
    [s_type                |-> "PIPELINE_SHADER_STAGE_CREATE_INFO",
     p_next                |-> b.shader_p_next,
     flags                 |-> b.shader_stage_flags,
     stage                 |-> stage,
     module                |-> module,
     p_name                |-> b.main_function_name,
     p_specialization_info |-> b.spec_info]

\* the PipelineShaderStageCreateInfo of one module (lib.rs 123-137)
StageCreateInfo(b, module, stage) ==
    [s_type                |-> "PIPELINE_SHADER_STAGE_CREATE_INFO",
     p_next                |-> b.shader_stage_p_next,
     flags                 |-> b.shader_stage_flags,
     stage                 |-> stage,
     module                |-> module,
     p_name                |-> b.main_function_name,
     p_specialization_info |-> b.spec_info]

----------------------------------------------------------------------------
(* Initial states: the caller has made a builder with new(); the directory   *)
(* is drawn from the input sets.  Spec draws every directory and lets the    *)
(* caller configure the builder with MaxConfigCalls setter calls; SpecSetters *)
(* draws the directories of at most one file and allows MaxSetterCalls       *)
(* setter calls.                                                             *)

Defaults ==
    [shader_flags        |-> 0,
     shader_p_next       |-> 0,
     shader_stage_flags  |-> 0,
     shader_stage_p_next |-> 0,
     spec_info           |-> 0,
     main_function_name  |-> MainName]

AfterNew ==
    /\ \E d \in DirPaths : builder = New("device", d, 1)
    /\ heap = <<[bytes |-> CStringNew(MainName), freed |-> FALSE]>>
    /\ pc = "builder"
    /\ files_path_buf = <<>>
    /\ api_calls = <<>>
    /\ live_modules = <<>>
    /\ shader_modules = <<>>
    /\ shader_path = <<>>
    /\ result = <<>>
    /\ panic_msg = ""
    /\ panic_path = <<>>
    /\ last_set = Defaults
    /\ seen_name = <<>>

Init ==
    /\ AfterNew
    /\ entries \in Directories
    /\ budget = MaxConfigCalls

InitSetters ==
    /\ AfterNew
    /\ entries \in {l \in Directories : Len(l) <= 1}
    /\ budget = MaxSetterCalls

env      == <<entries>>
nopanic  == <<panic_msg, panic_path>>
buildvar == <<files_path_buf, api_calls, live_modules, shader_modules,
              shader_path, result>>

----------------------------------------------------------------------------
(* The setters (lib.rs 62-90) *)

Setter(b, field, v) ==
    /\ pc = "builder"
    /\ budget > 0
    /\ builder' = b
    /\ last_set' = [last_set EXCEPT ![field] = v]
    /\ budget' = budget - 1
    /\ panic_msg' = ""
    /\ panic_path' = <<>>
    /\ UNCHANGED <<heap, env, pc, buildvar, seen_name>>

WithShaderFlags ==
    \E v \in Flags : Setter(with_shader_flags(builder, v), "shader_flags", v)

WithShaderPNext ==
    \E v \in Pointers :
        Setter(with_shader_p_next(builder, v), "shader_p_next", v)

WithShaderStageFlags ==
    \E v \in Flags :
        Setter(with_shader_stage_flags(builder, v), "shader_stage_flags", v)

WithShaderStagePNext ==
    \E v \in Pointers :
        Setter(with_shader_stage_p_next(builder, v), "shader_stage_p_next", v)

WithSpecInfo ==
    \E v \in Pointers : Setter(with_spec_info(builder, v), "spec_info", v)

\* line 89: the new CString is made first, then the assignment drops the old
WithMainFunctionName ==
    /\ pc = "builder"
    /\ budget > 0
    /\ \E s \in NameArgs :
        /\ CStringNew(s) # NulError
        /\ heap' = Append(Free(heap, builder.main_function_name),
                          [bytes |-> CStringNew(s), freed |-> FALSE])
        /\ builder' = with_main_function_name(builder, Len(heap) + 1)
        /\ last_set' = [last_set EXCEPT !.main_function_name = s]
    /\ budget' = budget - 1
    /\ panic_msg' = ""
    /\ panic_path' = <<>>
    /\ UNCHANGED <<env, pc, buildvar, seen_name>>

\* line 89 with a name that holds a NUL: unwrap panics before the
\* assignment, so the call ends with the builder as it was; the caller still
\* holds the builder and may go on with it
WithMainFunctionNamePanic ==
    /\ pc = "builder"
    /\ budget > 0
    /\ \E s \in NameArgs : CStringNew(s) = NulError
    /\ panic_msg' = "unwrap on Err"
    /\ panic_path' = <<>>
    /\ budget' = budget - 1
    /\ UNCHANGED <<builder, heap, env, pc, buildvar, last_set, seen_name>>

----------------------------------------------------------------------------
(* build (lib.rs 93-140) and create_shader_modules (lib.rs 143-194) *)

\* a panic inside build: the call ends and unwinding drops self
Panic(msg, path) ==
    /\ pc' = "panicked"
    /\ panic_msg' = msg
    /\ panic_path' = path
    /\ heap' = DropBuilder(heap, builder)

\* lib.rs 149-150: read_dir fails (no such directory, no permission)
ReadDirFail ==
    /\ pc = "builder"
    /\ Panic("Failed to find spv file", builder.dir_path)
    /\ budget' = 0
    /\ UNCHANGED <<builder, env, buildvar, last_set, seen_name>>

\* lib.rs 149-165: the matched paths are collected
ReadDir ==
    /\ pc = "builder"
    /\ files_path_buf' = ShaderFilePaths(builder.dir_path, entries)
    /\ pc' = "modules"
    /\ budget' = 0
    /\ panic_msg' = ""
    /\ panic_path' = <<>>
    /\ UNCHANGED <<builder, heap, env, api_calls, live_modules, shader_modules,
                   shader_path, result, last_set, seen_name>>

\* the path the lazy chain of lines 167-193 works on next
NextPath == files_path_buf[Len(shader_modules) + 1]

OpenIndices_Eager(created, total) ==
    IF created = 0 THEN 1..total ELSE {}

\* lib.rs 167-169: `files` is a lazy map, so a file is opened when the chain
\* reaches it, after the modules of the files before it have been created.
\* The indices of files_path_buf that File::open may be called on once
\* `created` of `total` modules exist.
OpenIndices(created, total) ==
    IF created < total THEN {created + 1} ELSE {}

\* lib.rs 168: File::open fails, on a file the chain has reached
OpenFail ==
    /\ pc = "modules"
    /\ \E k \in OpenIndices(Len(shader_modules), Len(files_path_buf)) :
           Panic("Failed to find compiled shader file", files_path_buf[k])
    /\ UNCHANGED <<builder, env, buildvar, last_set, budget, seen_name>>

\* the call of lines 187-191 for the file at path
CreateCall(path) ==
    ModuleCreateInfo(builder.shader_flags, builder.shader_p_next,
                     BytesRead(builder.dir_path, path), path)

Max(s) == IF s = {} THEN 0 ELSE CHOOSE x \in s : \A y \in s : y <= x

\* the handles the device may return: one in use or the next unused one
Handles == 1..(Max(Range(live_modules)) + 1)

\* lib.rs 168-191: open, read, create_shader_module returns a handle
CreateModule ==
    /\ pc = "modules"
    /\ Len(shader_modules) < Len(files_path_buf)
    /\ \E h \in Handles :
        /\ api_calls' = Append(api_calls,
                               [info |-> CreateCall(NextPath), ret |-> h])
        /\ live_modules' = Append(live_modules, h)
        /\ shader_modules' = Append(shader_modules, h)
    /\ UNCHANGED <<builder, heap, env, pc, files_path_buf, shader_path, result,
                   nopanic, last_set, budget, seen_name>>

\* lib.rs 187-191: create_shader_module returns an error (no handle, 0),
\* expect panics
CreateModuleFail ==
    /\ pc = "modules"
    /\ Len(shader_modules) < Len(files_path_buf)
    /\ api_calls' = Append(api_calls,
                           [info |-> CreateCall(NextPath), ret |-> 0])
    /\ Panic("Failed to create shader module!", <<>>)
    /\ UNCHANGED <<builder, env, files_path_buf, live_modules, shader_modules,
                   shader_path, result, last_set, budget, seen_name>>

\* lib.rs 101-116: create_shader_modules has returned; the second
\* enumeration, zipped with the modules, fills the map
ZipPaths ==
    /\ pc = "modules"
    /\ Len(shader_modules) = Len(files_path_buf)
    /\ shader_path' = ZipCollect(shader_modules,
                                 SpvFilePaths(builder.dir_path, entries))
    /\ pc' = "stages"
    /\ UNCHANGED <<builder, heap, env, files_path_buf, api_calls, live_modules,
                   shader_modules, result, nopanic, last_set, budget,
                   seen_name>>

NextModule == shader_modules[Len(result) + 1]

\* lib.rs 121: the module has no path in the map, unwrap panics
NoPathPanic ==
    /\ pc = "stages"
    /\ Len(result) < Len(shader_modules)
    /\ NextModule \notin DOMAIN shader_path
    /\ Panic("unwrap on None", <<>>)
    /\ UNCHANGED <<builder, env, buildvar, last_set, budget, seen_name>>

\* lib.rs 127-133: neither pattern is in the path
StagePanic ==
    /\ pc = "stages"
    /\ Len(result) < Len(shader_modules)
    /\ NextModule \in DOMAIN shader_path
    /\ InferStage(shader_path[NextModule]) = "PANIC"
    /\ Panic("Failed to define shader type!", <<>>)
    /\ UNCHANGED <<builder, env, buildvar, last_set, budget, seen_name>>

\* lib.rs 120-138: the descriptor of the next module
MakeStage ==
    /\ pc = "stages"
    /\ Len(result) < Len(shader_modules)
    /\ NextModule \in DOMAIN shader_path
    /\ InferStage(shader_path[NextModule]) # "PANIC"
    /\ result' = Append(result,
                        StageCreateInfo(builder, NextModule,
                                        InferStage(shader_path[NextModule])))
    /\ UNCHANGED <<builder, heap, env, pc, files_path_buf, api_calls,
                   live_modules, shader_modules, shader_path, nopanic,
                   last_set, budget, seen_name>>

\* the heap when build returns (lib.rs 139-140): self goes out of scope
HeapAtReturn(h, b) == DropBuilder(h, b)

\* lib.rs 139-140: the vector is returned
BuildReturn ==
    /\ pc = "stages"
    /\ Len(result) = Len(shader_modules)
    /\ pc' = "done"
    /\ heap' = HeapAtReturn(heap, builder)
    /\ UNCHANGED <<builder, env, buildvar, nopanic, last_set, budget,
                   seen_name>>

\* what a read of a released buffer may give
Garbage == {CStringNew(MainName), <<"?">>}

\* the caller reads the entry-point name through the first descriptor
ReadName ==
    /\ pc = "done"
    /\ result # <<>>
    /\ seen_name = <<>>
    /\ LET buf == heap[result[1].p_name]
       IN  seen_name' \in (IF buf.freed THEN Garbage ELSE {buf.bytes})
    /\ UNCHANGED <<builder, heap, env, pc, buildvar, nopanic, last_set,
                   budget>>

Next ==
    \/ WithShaderFlags
    \/ WithShaderPNext
    \/ WithShaderStageFlags
    \/ WithShaderStagePNext
    \/ WithSpecInfo
    \/ WithMainFunctionName
    \/ WithMainFunctionNamePanic
    \/ ReadDirFail
    \/ ReadDir
    \/ OpenFail
    \/ CreateModule
    \/ CreateModuleFail
    \/ ZipPaths
    \/ NoPathPanic
    \/ StagePanic
    \/ MakeStage
    \/ BuildReturn
    \/ ReadName

Spec == Init /\ [][Next]_vars

SpecSetters == InitSetters /\ [][Next]_vars

----------------------------------------------------------------------------
(* build as a function of the directory path and the file names, for a     *)
(* device that returns a new handle at every call and a file system on     *)
(* which every open succeeds (lib.rs 93-140)                               *)

BuildStages(dir, names) ==
    LET n       == Len(ShaderFilePaths(dir, names))
        modules == [i \in 1..n |-> i]
        map     == ZipCollect(modules, SpvFilePaths(dir, names))
        fails   == \E i \in 1..n : \/ modules[i] \notin DOMAIN map
                                   \/ InferStage(map[modules[i]]) = "PANIC"
    IN  IF fails
        THEN [returns |-> FALSE, stages |-> <<>>]
        ELSE [returns |-> TRUE,
              stages  |-> [i \in 1..n |-> InferStage(map[modules[i]])]]

----------------------------------------------------------------------------
(* Vocabulary of the properties *)

Finished == pc \in {"done", "panicked"}

\* build ended on a failure of the file system or of the device, not on a
\* file name
EnvFailure ==
    panic_msg \in {"Failed to find spv file",
                   "Failed to find compiled shader file",
                   "Failed to create shader module!"}

NameFailure ==
    panic_msg \in {"Failed to define shader type!", "unwrap on None"}

DistinctHandles == Distinct(shader_modules)

P_dot_vert_spv == <<".">> \o S_vert_spv
P_dot_frag_spv == <<".">> \o S_frag_spv

\* a file for which a module is created, as the specification states it
Selected(path) ==
    Contains(path, S_spv) \/ Contains(path, S_vs) \/ Contains(path, S_fs)

\* the paths of the selected files of the directory, in enumeration order
SelectedPaths == SelectSeq(AllPaths(builder.dir_path, entries), Selected)

\* the stage of a path as the specification states it
StatedStage(path) ==
    IF Contains(path, P_dot_vert_spv) \/ Contains(path, S_vs) THEN "VERTEX"
    ELSE IF Contains(path, P_dot_frag_spv) \/ Contains(path, S_fs)
         THEN "FRAGMENT"
    ELSE "NONE"

\* the stage of a path with the patterns "vert.spv" and "frag.spv"
PatternStage(path) ==
    IF Contains(path, S_vert_spv) \/ Contains(path, S_vs) THEN "VERTEX"
    ELSE IF Contains(path, S_frag_spv) \/ Contains(path, S_fs)
         THEN "FRAGMENT"
    ELSE "NONE"

\* the name of the file at a path of the directory
NameOf(path) ==
    CHOOSE f \in FileNames : EntryPath(builder.dir_path, f) = path

IsPrefix(s, u) == Len(s) <= Len(u) /\ \A i \in 1..Len(s) : s[i] = u[i]

----------------------------------------------------------------------------
(* C1: a directory of N files whose paths are all recognizable makes build *)
(* return exactly N descriptors, one per created module, also when some of *)
(* the files are named with ".vs" or ".fs" only.                           *)
C1_OneDescriptorPerFile ==
    ( /\ Finished
      /\ ~EnvFailure
      /\ \A i \in 1..Len(entries) :
             StatedStage(EntryPath(builder.dir_path, entries[i])) # "NONE" )
    => /\ pc = "done"
       /\ Len(result) = Len(entries)
       /\ Len(result) = Len(live_modules)

----------------------------------------------------------------------------
(* C2, as stated: with distinct handles, the i-th descriptor returned      *)
(* carries the module created from the i-th selected file and the stage    *)
(* that ".vert.spv"/".vs" (VERTEX) and ".frag.spv"/".fs" (FRAGMENT) give   *)
(* to the path of that file.                                               *)
C2_StatedStagePerModule ==
    (pc = "done" /\ DistinctHandles) =>
        /\ Len(result) = Len(SelectedPaths)
        /\ \A i \in 1..Len(result) :
            /\ api_calls[i].info.p_code = SelectedPaths[i]
            /\ result[i].module = api_calls[i].ret
            /\ result[i].stage = StatedStage(SelectedPaths[i])

(* C2, amended: the same with the patterns the code tests, "vert.spv" or   *)
(* ".vs" for VERTEX and otherwise "frag.spv" or ".fs" for FRAGMENT.        *)
C2_StagePerModule ==
    (pc = "done" /\ DistinctHandles) =>
        /\ Len(result) = Len(SelectedPaths)
        /\ \A i \in 1..Len(result) :
            /\ api_calls[i].info.p_code = SelectedPaths[i]
            /\ result[i].module = api_calls[i].ret
            /\ result[i].stage = PatternStage(SelectedPaths[i])

C2_Witness ==
    /\ pc = "done"
    /\ DistinctHandles
    /\ Len(result) = 2
    /\ result[1].stage = "FRAGMENT"
    /\ result[2].stage = "VERTEX"

----------------------------------------------------------------------------
(* C3, as stated: with distinct handles, when a selected file has a path   *)
(* with none of ".vert.spv", ".vs", ".frag.spv", ".fs", build does not     *)
(* return; and no descriptor has a stage other than VERTEX and FRAGMENT.   *)
C3_StatedUnrecognizedFails ==
    /\ (pc = "done" /\ DistinctHandles) =>
           \A i \in 1..Len(SelectedPaths) :
               StatedStage(SelectedPaths[i]) # "NONE"
    /\ \A i \in 1..Len(result) : result[i].stage \in {"VERTEX", "FRAGMENT"}

(* C3, amended: the same for a path with none of "vert.spv", ".vs",        *)
(* "frag.spv", ".fs".                                                      *)
C3_UnrecognizedFails ==
    /\ (pc = "done" /\ DistinctHandles) =>
           \A i \in 1..Len(SelectedPaths) :
               PatternStage(SelectedPaths[i]) # "NONE"
    /\ \A i \in 1..Len(result) : result[i].stage \in {"VERTEX", "FRAGMENT"}

C3_Witness ==
    /\ pc = "panicked"
    /\ panic_msg = "Failed to define shader type!"
    /\ DistinctHandles
    /\ Len(shader_modules) = 2
    /\ Len(result) = 1
    /\ PatternStage(SelectedPaths[2]) = "NONE"

----------------------------------------------------------------------------
(* C4: the files selected and the outcome of build (failure, or the stages *)
(* position by position) are those build has for the same file names in    *)
(* any other directory path.                                               *)
SelectedNames(dir, names) ==
    SelectSeq(names, LAMBDA f : Selected(EntryPath(dir, f)))

C4_DirectoryIndependent ==
    (Finished /\ ~EnvFailure /\ DistinctHandles) =>
        \A d \in DirPaths :
            /\ [i \in 1..Len(files_path_buf) |-> NameOf(files_path_buf[i])]
                   = SelectedNames(d, entries)
            /\ BuildStages(d, entries) =
                   [returns |-> pc = "done",
                    stages  |-> IF pc = "done"
                                THEN [i \in 1..Len(result) |-> result[i].stage]
                                ELSE <<>>]

\* the function BuildStages and the steps of build agree on the directory
\* the steps ran on
BuildStagesAgree ==
    (Finished /\ ~EnvFailure /\ DistinctHandles) =>
        BuildStages(builder.dir_path, entries) =
            [returns |-> pc = "done",
             stages  |-> IF pc = "done"
                         THEN [i \in 1..Len(result) |-> result[i].stage]
                         ELSE <<>>]

----------------------------------------------------------------------------
(* C5: every descriptor has the builder's shader_stage_flags,              *)
(* shader_stage_p_next and spec_info, as last set by the caller, and the   *)
(* structure type of a shader stage; every create_shader_module call has   *)
(* the builder's shader_flags and shader_p_next.                           *)
C5_FieldsFromBuilder ==
    /\ \A i \in 1..Len(result) :
        /\ result[i].s_type = "PIPELINE_SHADER_STAGE_CREATE_INFO"
        /\ result[i].flags = builder.shader_stage_flags
        /\ result[i].flags = last_set.shader_stage_flags
        /\ result[i].p_next = builder.shader_stage_p_next
        /\ result[i].p_next = last_set.shader_stage_p_next
        /\ result[i].p_specialization_info = builder.spec_info
        /\ result[i].p_specialization_info = last_set.spec_info
    /\ \A i \in 1..Len(api_calls) :
        /\ api_calls[i].info.flags = builder.shader_flags
        /\ api_calls[i].info.flags = last_set.shader_flags
        /\ api_calls[i].info.p_next = builder.shader_p_next
        /\ api_calls[i].info.p_next = last_set.shader_p_next

C5_Witness ==
    /\ pc = "done"
    /\ Len(result) = 2
    /\ result[1].p_next = 7
    /\ result[2].p_next = 7
    /\ api_calls[2].info.p_next = 0

----------------------------------------------------------------------------
(* C6: while the caller holds the builder, every field has the value of    *)
(* the last call of its setter that returned, or the default of new if     *)
(* there was none (a setter call that panics changes nothing), and no      *)
(* setter call changes device or dir_path.                                 *)
BuilderAsSet ==
    pc = "builder" =>
        /\ builder.shader_flags = last_set.shader_flags
        /\ builder.shader_p_next = last_set.shader_p_next
        /\ builder.shader_stage_flags = last_set.shader_stage_flags
        /\ builder.shader_stage_p_next = last_set.shader_stage_p_next
        /\ builder.spec_info = last_set.spec_info
        /\ ~heap[builder.main_function_name].freed
        /\ heap[builder.main_function_name].bytes
               = last_set.main_function_name \o <<NUL>>

C6_BuilderFrame ==
    /\ []BuilderAsSet
    /\ [][ /\ builder'.device = builder.device
           /\ builder'.dir_path = builder.dir_path ]_vars

C6_Witness ==
    /\ pc = "builder"
    /\ budget = 0
    /\ builder.shader_p_next = 7
    /\ builder.shader_stage_p_next = 0
    /\ builder.spec_info = 0
    /\ last_set.main_function_name = <<"e">>
    /\ Len(heap) = 3

----------------------------------------------------------------------------
(* C7: the calls of create_shader_module are, in order, one for each       *)
(* selected entry, each with the size of its file, and none for another    *)
(* entry; all of them are made once create_shader_modules has returned;    *)
(* a directory that can be read and has no selected entry gives no call    *)
(* and an empty vector.                                                    *)
C7_OneCallPerSelectedFile ==
    /\ Len(api_calls) <= Len(SelectedPaths)
    /\ \A i \in 1..Len(api_calls) :
        /\ api_calls[i].info.p_code = SelectedPaths[i]
        /\ api_calls[i].info.code_size = FileSize(NameOf(SelectedPaths[i]))
    /\ (pc \in {"stages", "done"} \/ NameFailure) =>
           Len(api_calls) = Len(SelectedPaths)
    /\ (SelectedPaths = <<>> /\ Finished /\ ~EnvFailure) =>
           (pc = "done" /\ result = <<>> /\ api_calls = <<>>)

C7_Witness ==
    /\ pc = "done"
    /\ Len(entries) = 2
    /\ Len(api_calls) = 1
    /\ ~Selected(EntryPath(builder.dir_path, entries[1]))

----------------------------------------------------------------------------
(* C8: when build has returned, the p_name of every descriptor is the      *)
(* address of a buffer that is not released and holds the name last set.   *)
C8_NameStaysValid ==
    pc = "done" =>
        \A i \in 1..Len(result) :
            /\ ~heap[result[i].p_name].freed
            /\ heap[result[i].p_name].bytes
                   = last_set.main_function_name \o <<NUL>>

----------------------------------------------------------------------------
(* C9: no stage is inferred before a module exists for every selected      *)
(* file; no module is ever destroyed; a failing read_dir leaves no module; *)
(* a failing open leaves the modules of the selected files before it; a    *)
(* failure on a name or on a missing path leaves one module per selected   *)
(* file.                                                                   *)
FailureOrdering ==
    /\ (pc \in {"stages", "done"} \/ result # <<>> \/ NameFailure) =>
        /\ Len(live_modules) = Len(SelectedPaths)
        /\ live_modules = shader_modules
        /\ \A i \in 1..Len(live_modules) :
            /\ api_calls[i].ret = live_modules[i]
            /\ api_calls[i].info.p_code = SelectedPaths[i]
    /\ panic_msg = "Failed to find spv file" =>
           (live_modules = <<>> /\ api_calls = <<>>)
    /\ panic_msg = "Failed to find compiled shader file" =>
        /\ Len(live_modules) < Len(SelectedPaths)
        /\ panic_path = SelectedPaths[Len(live_modules) + 1]
        /\ Len(api_calls) = Len(live_modules)
        /\ \A i \in 1..Len(live_modules) :
            /\ api_calls[i].ret = live_modules[i]
            /\ api_calls[i].info.p_code = SelectedPaths[i]

C9_FailureOrdering ==
    /\ []FailureOrdering
    /\ [][IsPrefix(live_modules, live_modules')]_vars

C9_Witness ==
    /\ pc = "panicked"
    /\ panic_msg = "Failed to find compiled shader file"
    /\ Len(live_modules) = 1
    /\ Len(SelectedPaths) = 2
    /\ panic_path = SelectedPaths[2]

====
